---- MODULE Spec2Model ----
(***************************************************************************)
(* Country-data refresh pipeline (refreshCountriesData and the accessors   *)
(* around it) as a state machine.  The store is PostgreSQL: the countries  *)
(* table with its unique index on lower(name), and the append-only         *)
(* refresh_metadata table.  Requests are served one at a time here; a      *)
(* refresh is split at its await points.                                   *)
(*                                                                         *)
(* JavaScript values are tagged records [t, n, s]: t is the type tag, n    *)
(* the numeric payload, s the string payload as a sequence of characters.  *)
(* A nullable SQL column is <<>> (NULL) or <<v>>.                          *)
(***************************************************************************)
EXTENDS Integers, Sequences, FiniteSets, TLC

\* ------------------------------------------------------------------------
\* Bounds of the model
\* ------------------------------------------------------------------------
MaxInvocations == 2

\* ------------------------------------------------------------------------
\* Program constants
\* ------------------------------------------------------------------------
DirectoryRetries == 3
RatesRetries == 8
GdpFactorLow == 1000
GdpFactorHigh == 2000

\* ------------------------------------------------------------------------
\* JavaScript values
\* ------------------------------------------------------------------------
NULL == <<>>

Some(v) == <<v>>

JSUndefined == [t |-> "undefined", n |-> 0, s |-> <<>>]

JSNull == [t |-> "null", n |-> 0, s |-> <<>>]

JSNum(k) == [t |-> "number", n |-> k, s |-> <<>>]

JSStr(chars) == [t |-> "string", n |-> 0, s |-> chars]

JSObj == [t |-> "object", n |-> 0, s |-> <<>>]

\* String.prototype.toLowerCase / SQL lower(), character by character
LowerChar(c) ==
  CASE c = "A" -> "a"
    [] c = "B" -> "b"
    [] OTHER -> c

Lower(str) == [k \in DOMAIN str |-> LowerChar(str[k])]

\* String.prototype.trim: drop leading and trailing blanks
RECURSIVE TrimLeft(_)
TrimLeft(str) ==
  IF str # <<>> /\ Head(str) = " " THEN TrimLeft(Tail(str)) ELSE str

RECURSIVE TrimRight(_)
TrimRight(str) ==
  IF str # <<>> /\ str[Len(str)] = " "
    THEN TrimRight(SubSeq(str, 1, Len(str) - 1))
    ELSE str

Trim(str) == TrimRight(TrimLeft(str))

DigitValue(c) ==
  CASE c = "0" -> 0
    [] c = "1" -> 1
    [] c = "2" -> 2
    [] c = "3" -> 3
    [] OTHER -> -1

RECURSIVE ParseDigits(_, _)
ParseDigits(str, acc) ==
  IF str = <<>> THEN acc
  ELSE IF DigitValue(Head(str)) < 0 THEN -1
  ELSE ParseDigits(Tail(str), acc * 10 + DigitValue(Head(str)))

\* ToNumber of the language: [nan, n].  undefined -> NaN, null -> 0,
\* "" and blank strings -> 0, digit strings -> their value, other strings
\* -> NaN, plain objects -> NaN.
ToNumber(v) ==
  CASE v.t = "number" -> [nan |-> FALSE, n |-> v.n]
    [] v.t = "null" -> [nan |-> FALSE, n |-> 0]
    [] v.t = "string" ->
         IF Trim(v.s) = <<>> THEN [nan |-> FALSE, n |-> 0]
         ELSE IF ParseDigits(Trim(v.s), 0) >= 0
           THEN [nan |-> FALSE, n |-> ParseDigits(Trim(v.s), 0)]
           ELSE [nan |-> TRUE, n |-> 0]
    [] OTHER -> [nan |-> TRUE, n |-> 0]

\* global isNaN(v): coerces with ToNumber first
IsNaN(v) == ToNumber(v).nan

\* v < 0 with the language's coercion; any comparison with NaN is false
LessThanZero(v) == ~ToNumber(v).nan /\ ToNumber(v).n < 0

\* truthiness: undefined, null, 0, NaN and "" are falsy
Truthy(v) ==
  CASE v.t = "undefined" -> FALSE
    [] v.t = "null" -> FALSE
    [] v.t = "number" -> v.n # 0
    [] v.t = "string" -> v.s # <<>>
    [] OTHER -> TRUE

\* ------------------------------------------------------------------------
\* Pure helpers of the controller
\* ------------------------------------------------------------------------

\* Math.random() used as the factor, without the scaling to [1000, 2000)
GDPFactorsUnscaled == {0, 1}

\* calculate_GDP_Factor: Math.random() * (2000 - 1000) + 1000, Math.random()
\* in [0, 1).  The reachable factors are sampled at the two ends of the
\* half-open interval.
GDPFactors == {GdpFactorLow, GdpFactorHigh - 1}

\* Object.keys(currencies) of a currencies value [t, keys]
ObjectKeys(currencies) == currencies.keys

\* extractCurrencyCode falling back to a fixed code when the record has
\* none, as it did before the fallback was changed to null
extractCurrencyCodeDefaulting(currencies) ==
  IF currencies.t # "object" \/ Len(ObjectKeys(currencies)) = 0
    THEN Some("X")
    ELSE Some(ObjectKeys(currencies)[1])

\* extractCurrencyCode: NULL, or the first key of the currencies object
extractCurrencyCode(currencies) ==
  IF currencies.t \in {"undefined", "null"} \/ currencies.t # "object"
    THEN NULL
  ELSE IF Len(ObjectKeys(currencies)) = 0 THEN NULL
  ELSE Some(ObjectKeys(currencies)[1])

\* validateCountryData: the set of fields in error
NameInvalid(name) ==
  ~Truthy(name) \/ name.t # "string" \/ Trim(name.s) = <<>>

PopulationInvalid(population) ==
  \/ population.t = "undefined"
  \/ population.t = "null"
  \/ IsNaN(population)
  \/ LessThanZero(population)

validateCountryData(country) ==
  (IF NameInvalid(country.name) THEN {"name"} ELSE {})
    \cup (IF PopulationInvalid(country.population) THEN {"population"} ELSE {})

IsValid(country) == validateCountryData(country) = {}

\* a / b rounded half up, for a >= 0 and b > 0
RoundDiv(a, b) == (2 * a + b) \div (2 * b)

\* exchangeRates[currencyCode] || null, for a rate table that maps codes to
\* numbers: NULL when the code is absent or its rate is 0
LookupRate(exchangeRates, code) ==
  IF code \in DOMAIN exchangeRates /\ exchangeRates[code] # 0
    THEN Some(exchangeRates[code])
    ELSE NULL

\* a rate test that only asks whether the table has an entry for the code
UsableRateAnyEntry(found) == found # NULL

\* exchangeRate && exchangeRate > 0
UsableRate(found) == found # NULL /\ found[1] > 0

\* an else branch that leaves estimatedGDP at the null it was declared with
NoCurrencyEstimateUnset == NULL

\* estimatedGDP = 0 of the branch without currency code
NoCurrencyEstimate == Some(0)

\* the currency, rate and estimate of one valid record (the loop body
\* between validation and the INSERT); estimated_gdp is held in hundredths,
\* the scale of its DECIMAL(20,2) column
Reconcile(country, exchangeRates, gdpMultiplier) ==
  LET currencyCode == extractCurrencyCode(country.currencies)
      hasCode == currencyCode # NULL /\ currencyCode[1] # ""
      found == IF hasCode THEN LookupRate(exchangeRates, currencyCode[1]) ELSE NULL
      usable == UsableRate(found)
  IN  IF hasCode
        THEN IF usable
               THEN [currency_code |-> currencyCode,
                     exchange_rate |-> found,
                     estimated_gdp |->
                       Some(RoundDiv(ToNumber(country.population).n * gdpMultiplier * 100,
                                     found[1])),
                     warned |-> FALSE]
               ELSE [currency_code |-> currencyCode,
                     exchange_rate |-> NULL,
                     estimated_gdp |-> NULL,
                     warned |-> TRUE]
        ELSE [currency_code |-> currencyCode,
              exchange_rate |-> NULL,
              estimated_gdp |-> NoCurrencyEstimate,
              warned |-> FALSE]

\* true when the record's estimate needs a draw of the random factor
NeedsFactor(country, exchangeRates) ==
  LET currencyCode == extractCurrencyCode(country.currencies)
  IN  /\ currencyCode # NULL
      /\ currencyCode[1] # ""
      /\ UsableRate(LookupRate(exchangeRates, currencyCode[1]))

\* the bound parameters $1..$8 of the INSERT
InsertValues(country, rec) ==
  [name |-> country.name.s,
   capital |-> country.capital,
   region |-> country.region,
   population |-> IF Truthy(country.population)
                    THEN ToNumber(country.population).n ELSE 0,
   currency_code |-> rec.currency_code,
   exchange_rate |-> rec.exchange_rate,
   estimated_gdp |-> rec.estimated_gdp,
   flag_url |-> country.flag]

\* ------------------------------------------------------------------------
\* The countries table
\* ------------------------------------------------------------------------

\* a conflict target on the name as written, without lower()
ConflictKeyExact(name) == name

\* the expression of the unique index and of the ON CONFLICT target
ConflictKey(name) == Lower(name)

\* an INSERT without ON CONFLICT clause on a table without unique index
NoConflict(rows, name) == {}

Conflicting(rows, name) == {r \in rows : ConflictKey(r.name) = ConflictKey(name)}

\* the row a plain INSERT of the values creates: the three timestamps are
\* CURRENT_TIMESTAMP, by the statement or by the column default
InsertedRow(v, now) ==
  [name |-> v.name,
   capital |-> v.capital,
   region |-> v.region,
   population |-> v.population,
   currency_code |-> v.currency_code,
   exchange_rate |-> v.exchange_rate,
   estimated_gdp |-> v.estimated_gdp,
   flag_url |-> v.flag_url,
   last_refreshed_at |-> now,
   created_at |-> now,
   updated_at |-> now]

\* an upsert done as DELETE of the conflicting row followed by INSERT
UpsertByReplacing(rows, v, now) ==
  (rows \ Conflicting(rows, v.name)) \cup {InsertedRow(v, now)}

\* INSERT ... ON CONFLICT (lower(name)) DO UPDATE SET ...
Upsert(rows, v, now) ==
  IF Conflicting(rows, v.name) = {}
    THEN rows \cup {InsertedRow(v, now)}
    ELSE {IF r \in Conflicting(rows, v.name)
            THEN [r EXCEPT !.capital = v.capital,
                           !.region = v.region,
                           !.population = v.population,
                           !.currency_code = v.currency_code,
                           !.exchange_rate = v.exchange_rate,
                           !.estimated_gdp = v.estimated_gdp,
                           !.flag_url = v.flag_url,
                           !.last_refreshed_at = now,
                           !.updated_at = now]
            ELSE r : r \in rows}

\* a DELETE that compares the name as written
DeleteMatchingExact(rows, name) == {r \in rows : r.name # name}

\* DELETE FROM countries WHERE LOWER(name) = LOWER($1)
DeleteMatching(rows, name) == {r \in rows : Lower(r.name) # Lower(name)}

Names(rows) == {r.name : r \in rows}

\* SELECT ... WHERE estimated_gdp IS NOT NULL ORDER BY estimated_gdp DESC
\* LIMIT n, as a sequence of rows; a tie is broken by the storage order the
\* CHOOSE stands for
RECURSIVE TopByEstimate(_, _)
TopByEstimate(rows, n) ==
  LET ranked == {r \in rows : r.estimated_gdp # NULL}
  IN  IF n = 0 \/ ranked = {} THEN <<>>
      ELSE LET top == CHOOSE r \in ranked :
                        \A q \in ranked : q.estimated_gdp[1] <= r.estimated_gdp[1]
           IN  <<top>> \o TopByEstimate(rows \ {top}, n - 1)

getTop5CountriesByGDP(rows) == TopByEstimate(rows, 5)

\* formatTop5CountriesForResponse: a falsy estimate (0) is reported as null
formatTop5CountriesForResponse(top) ==
  [k \in DOMAIN top |->
     [name |-> top[k].name,
      estimated_gdp |-> IF top[k].estimated_gdp # NULL /\ top[k].estimated_gdp[1] # 0
                          THEN top[k].estimated_gdp ELSE NULL,
      currency_code |-> top[k].currency_code,
      population |-> top[k].population]]

\* ------------------------------------------------------------------------
\* The refresh_metadata table
\* ------------------------------------------------------------------------
StatusCompleted == "completed"

StatusDirectoryFailed == "failed - countries API unavailable"

StatusRatesFailed == "failed - exchange rates API unavailable"

\* the row logRefreshMetadata inserts
MetadataRow(totalCountries, duration, status, now) ==
  [total_countries |-> totalCountries,
   last_refresh_timestamp |-> now,
   refresh_duration_seconds |-> duration,
   status |-> status,
   created_at |-> now]

\* the same query with the order reversed: NULL or the oldest row
OldestRun(meta) ==
  IF meta = <<>> THEN NULL
  ELSE Some(meta[CHOOSE k \in DOMAIN meta :
                   \A j \in DOMAIN meta :
                     \/ meta[k].created_at < meta[j].created_at
                     \/ (meta[j].created_at = meta[k].created_at /\ k <= j)])

\* ... ORDER BY created_at DESC LIMIT 1: NULL or the latest row
LatestRun(meta) ==
  IF meta = <<>> THEN NULL
  ELSE Some(meta[CHOOSE k \in DOMAIN meta :
                   \A j \in DOMAIN meta :
                     \/ meta[j].created_at < meta[k].created_at
                     \/ (meta[j].created_at = meta[k].created_at /\ j <= k)])

\* ------------------------------------------------------------------------
\* fetchWithRetry
\* ------------------------------------------------------------------------
\* a last-attempt test that is off by one: the loop would go round once more
IsLastAttemptOffByOne(i, retries) == i = retries

\* i === retries - 1
IsLastAttempt(i, retries) == i = retries - 1

\* the wait in milliseconds after the failed attempt of index i
RetryDelayFromIndex(i) == IF i < 2 THEN (i + 1) * 2000 ELSE i * 5000

RetryDelay(i) == IF i < 2 THEN (i + 1) * 2000 ELSE (i + 1) * 5000

\* ------------------------------------------------------------------------
\* The upstream data the two external APIs serve
\* ------------------------------------------------------------------------
Currencies(t, keys) == [t |-> t, keys |-> keys]

Raw(name, capital, region, population, flag, currencies) ==
  [name |-> name, capital |-> capital, region |-> region,
   population |-> population, flag |-> flag, currencies |-> currencies]

cA == Raw(JSStr(<<"a">>), Some("p"), Some("r"), JSNum(3), Some("f"),
          Currencies("object", <<"X">>))

cUpperA == Raw(JSStr(<<"A">>), NULL, NULL, JSNum(2), NULL,
               Currencies("object", <<>>))

cB == Raw(JSStr(<<"b">>), Some("q"), NULL, JSNum(0), NULL,
          Currencies("object", <<"Y", "X">>))

cBlankName == Raw(JSStr(<<" ">>), NULL, NULL, JSNum(3), NULL,
                  Currencies("object", <<"X">>))

cNoName == Raw(JSUndefined, NULL, NULL, JSNum(3), NULL,
               Currencies("object", <<"X">>))

cNegative == Raw(JSStr(<<"b">>), NULL, NULL, JSNum(-1), NULL,
                 Currencies("undefined", <<>>))

cNoPopulation == Raw(JSStr(<<"a">>), NULL, NULL, JSUndefined, NULL,
                     Currencies("object", <<"X">>))

cTextPopulation == Raw(JSStr(<<"a">>), NULL, NULL, JSStr(<<"x">>), NULL,
                       Currencies("object", <<"X">>))

cEmptyPopulation == Raw(JSStr(<<"b">>), NULL, NULL, JSStr(<<>>), NULL,
                        Currencies("undefined", <<>>))

cTextCurrencies == Raw(JSStr(<<"B">>), NULL, NULL, JSNum(1), Some("g"),
                       Currencies("string", <<>>))

cNullCurrencies == Raw(JSStr(<<"b", " ">>), NULL, Some("r"), JSNum(1), NULL,
                       Currencies("null", <<>>))

Directories ==
  { <<>>,
    <<cA>>,
    <<cUpperA, cB>>,
    <<cA, cUpperA>>,
    <<cBlankName, cNoName, cNegative>>,
    <<cNoPopulation, cTextCurrencies, cTextPopulation>>,
    <<cEmptyPopulation>>,
    <<cNullCurrencies>> }

\* the `rates` member of the exchange-rate response: [t, m]
Rates(t, m) == [t |-> t, m |-> m]

NoRates == [c \in {} |-> 0]

RateResponses ==
  { Rates("undefined", NoRates),
    Rates("object", NoRates),
    Rates("object", [c \in {"X", "Y"} |-> 2]),
    Rates("object", [c \in {"X", "Y"} |-> IF c = "X" THEN -1 ELSE 0]) }

\* the primary endpoint's shape of a directory entry: the name under
\* name.common, the capitals as an array, the flag under flags.svg
V3Entry(c) ==
  [name |-> [common |-> c.name],
   capital |-> IF c.capital = NULL THEN <<>> ELSE <<c.capital[1]>>,
   region |-> c.region,
   population |-> c.population,
   flags |-> [svg |-> c.flag, png |-> NULL],
   currencies |-> c.currencies]

\* the .map() callback that brings a primary-endpoint entry to the legacy
\* shape
NormalizeV3(e) ==
  [name |-> IF Truthy(e.name.common) THEN e.name.common ELSE JSObj,
   capital |-> IF e.capital # <<>> THEN Some(e.capital[1]) ELSE NULL,
   region |-> e.region,
   population |-> e.population,
   flag |-> IF e.flags.svg # NULL THEN e.flags.svg ELSE e.flags.png,
   currencies |-> IF e.currencies.t \in {"undefined", "null"}
                    THEN Currencies("object", <<>>)
                    ELSE e.currencies]

\* the structural check of the exchange-rate response
RatesResponseValid(rates) == rates.t = "object"

\* ------------------------------------------------------------------------
\* State
\* ------------------------------------------------------------------------
VARIABLES
  upstreamDir,        \* the directory the country API served to this request
  upstreamRates,      \* the `rates` member the rate API served to this request
  countriesRows,      \* committed rows of the countries table
  refresh_metadata,   \* committed rows of refresh_metadata, in insertion order
  artifact,           \* cache/summary.png: NULL or <<its content>>
  clock,              \* CURRENT_TIMESTAMP, one tick per refresh request
  pc,                 \* position of the refresh request in flight, or "idle"
  startTime,          \* startTime of the request
  attempt,            \* loop variable i of the fetchWithRetry call in progress
  delays,             \* the waits of the fetchWithRetry call in progress
  fetchError,         \* the error a fetch step threw to its catch block
  directoryState,     \* "pending", "ok" or "failed"
  ratesState,         \* "pending", "ok" or "failed"
  countries,          \* the local array of fetched records
  exchangeRates,      \* the local rate table
  idx,                \* loop variable i of the persist loop
  processedCount,
  validationErrors,
  rateWarnings,       \* the "currency not found" warnings logged
  txRows,             \* the rows as the open transaction sees them
  txState,            \* "none", "open", "committed" or "rolledback"
  clientState,        \* "none", "held" or "released"
  releases,           \* calls of client.release() in this request
  thrown,             \* the error caught by the transaction's catch block
  imageError,         \* the step whose error generateSummaryImage caught
  startRows,          \* countriesRows when the request started
  startRuns,          \* Len(refresh_metadata) when the request started
  startArtifact,      \* artifact when the request started
  res,                \* the last HTTP response sent
  baseline,           \* NULL, or the upstream data and the resulting names of
                      \* the first of the successes in a row over the same
                      \* upstream data, without delete in between
  racePc,             \* position of each of the two overlapping refreshes
  raceCountries,      \* the array of fetched records of each
  raceIdx,            \* loop variable i of the persist loop of each
  raceNow,            \* CURRENT_TIMESTAMP of the transaction of each
  raceClock,          \* the store's clock, one tick per BEGIN
  raceWrites,         \* the row versions each transaction has written
  raceLastWriter,     \* pairs <<name key, request>>: who wrote the key last
  raceRows,           \* committed rows of the countries table
  raceRuns            \* committed rows of refresh_metadata

storeVars == <<countriesRows, refresh_metadata, artifact>>

fetchVars == <<attempt, delays, fetchError, directoryState, ratesState,
               countries, exchangeRates>>

loopVars == <<idx, processedCount, validationErrors, rateWarnings>>

txVars == <<txRows, txState, clientState, releases, thrown>>

startVars == <<startTime, startRows, startRuns, startArtifact>>

\* the variables of the requests handled one at a time
requestVars == <<upstreamDir, upstreamRates, storeVars, clock, pc, fetchVars,
                 loopVars, txVars, startVars, imageError, res, baseline>>

\* the variables of the two refresh requests that run at the same time
raceVars == <<racePc, raceCountries, raceIdx, raceNow, raceClock, raceWrites,
              raceLastWriter, raceRows, raceRuns>>

vars == <<requestVars, raceVars>>

\* ------------------------------------------------------------------------
\* Responses
\* ------------------------------------------------------------------------
Response(op, status, total, duration, top5, warnings) ==
  [op |-> op, status |-> status, total |-> total, duration |-> duration,
   top5 |-> top5, warnings |-> warnings]

NoResponse == Response("none", 0, 0, NULL, <<>>, <<>>)

\* ------------------------------------------------------------------------
\* Control flow of refreshCountriesData
\* ------------------------------------------------------------------------

\* a primary failure that ends the directory step, without fallback
AfterPrimaryFailureGivesUp == "dir_failed"

\* where the request goes when the primary directory attempt threw
AfterPrimaryFailure == "v2"

\* a fallback failure that is swallowed, so that the request goes on
AfterFallbackFailureProceeds == "rates"

\* where the request goes when the fallback directory attempt threw
AfterFallbackFailure == "dir_failed"

\* a rate failure that is swallowed, so that the request goes on with an
\* empty rate table
AfterRatesFailureProceeds == "connect"

\* where the request goes when the rate fetch or its check threw
AfterRatesFailure == "rates_failed"

\* the loop's exit without the all-rejected check
NeverAllRejected(errors, processed) == FALSE

\* validationErrors.length > 0 && processedCount === 0
AllRejected(errors, processed) == Len(errors) > 0 /\ processed = 0

\* a catch block that ends the transaction without undoing its writes
RollbackKeepsWrites(committed, tx) == tx

\* the committed rows after ROLLBACK of a transaction that saw `tx`
Rollback(committed, tx) == committed

\* a COMMIT that does not make the transaction's writes visible
CommitLosesWrites(committed, tx) == committed

\* the committed rows after COMMIT of a transaction that saw `tx`
Commit(committed, tx) == tx

\* the baseline of the idempotence comparison survives a response only if
\* the response serves what the baseline run was served
StillComparable(base, field, served) ==
  IF base # NULL /\ base[1][field] = served THEN base ELSE NULL

\* the two overlapping requests, before they exist
RaceAbsent ==
  /\ racePc = <<"absent", "absent">>
  /\ raceCountries = <<<<>>, <<>>>>
  /\ raceIdx = <<0, 0>>
  /\ raceNow = <<0, 0>>
  /\ raceClock = 0
  /\ raceWrites = <<{}, {}>>
  /\ raceLastWriter = {}
  /\ raceRows = {}
  /\ raceRuns = <<>>

\* the server after start-up, on an empty database, no request in flight
RequestInit ==
  /\ upstreamDir = <<>>
  /\ upstreamRates = Rates("undefined", NoRates)
  /\ countriesRows = {}
  /\ refresh_metadata = <<>>
  /\ artifact = NULL
  /\ clock = 0
  /\ pc = "idle"
  /\ startTime = 0
  /\ attempt = 0
  /\ delays = <<>>
  /\ fetchError = "none"
  /\ directoryState = "pending"
  /\ ratesState = "pending"
  /\ countries = <<>>
  /\ exchangeRates = NoRates
  /\ idx = 0
  /\ processedCount = 0
  /\ validationErrors = <<>>
  /\ rateWarnings = <<>>
  /\ txRows = {}
  /\ txState = "none"
  /\ clientState = "none"
  /\ releases = 0
  /\ thrown = "none"
  /\ imageError = "none"
  /\ startRows = {}
  /\ startRuns = 0
  /\ startArtifact = NULL
  /\ res = NoResponse
  /\ baseline = NULL

Init == RequestInit /\ RaceAbsent

\* POST /countries/refresh arrives: the locals are initialised
StartRefresh ==
  /\ pc = "idle"
  /\ clock < MaxInvocations
  /\ clock' = clock + 1
  /\ startTime' = clock + 1
  /\ pc' = "v3"
  /\ attempt' = 0
  /\ delays' = <<>>
  /\ fetchError' = "none"
  /\ directoryState' = "pending"
  /\ ratesState' = "pending"
  /\ countries' = <<>>
  /\ exchangeRates' = NoRates
  /\ idx' = 0
  /\ processedCount' = 0
  /\ validationErrors' = <<>>
  /\ rateWarnings' = <<>>
  /\ txRows' = {}
  /\ txState' = "none"
  /\ clientState' = "none"
  /\ releases' = 0
  /\ thrown' = "none"
  /\ imageError' = "none"
  /\ startRows' = countriesRows
  /\ startRuns' = Len(refresh_metadata)
  /\ startArtifact' = artifact
  /\ res' = NoResponse
  /\ upstreamDir' = <<>>
  /\ upstreamRates' = Rates("undefined", NoRates)
  /\ UNCHANGED <<storeVars, baseline, raceVars>>

\* one failed attempt of fetchWithRetry(url, options, retries): either the
\* wait before the next attempt, or the throw that sends the request to
\* `onThrow`
FailedAttempt(retries, onThrow) ==
  IF IsLastAttempt(attempt, retries)
    THEN /\ pc' = onThrow
         /\ attempt' = 0
         /\ delays' = <<>>
    ELSE /\ pc' = pc
         /\ attempt' = attempt + 1
         /\ delays' = Append(delays, RetryDelay(attempt))

\* an attempt against the primary directory endpoint fails
PrimaryAttemptFails ==
  /\ pc = "v3"
  /\ FailedAttempt(DirectoryRetries, AfterPrimaryFailure)
  /\ UNCHANGED <<upstreamDir, upstreamRates, storeVars, clock, fetchError,
                 directoryState, ratesState, countries, exchangeRates,
                 loopVars, txVars, startVars, imageError, raceVars, res, baseline>>

\* an attempt against the primary endpoint answers with the directory,
\* which may differ from what the API served before
PrimaryAttemptSucceeds ==
  /\ pc = "v3"
  /\ upstreamDir' \in Directories
  /\ baseline' = StillComparable(baseline, "dir", upstreamDir')
  /\ countries' = [k \in DOMAIN upstreamDir' |->
                     NormalizeV3(V3Entry(upstreamDir'[k]))]
  /\ directoryState' = "ok"
  /\ pc' = "rates"
  /\ attempt' = 0
  /\ delays' = <<>>
  /\ UNCHANGED <<upstreamRates, storeVars, clock, fetchError, ratesState,
                 exchangeRates, loopVars, txVars, startVars, imageError, raceVars, res>>

\* an attempt against the primary endpoint answers with a body that is not
\* an array: .map throws and the fallback is tried
PrimaryAttemptGarbled ==
  /\ pc = "v3"
  /\ pc' = AfterPrimaryFailure
  /\ attempt' = 0
  /\ delays' = <<>>
  /\ UNCHANGED <<upstreamDir, upstreamRates, storeVars, clock, fetchError,
                 directoryState, ratesState, countries, exchangeRates,
                 loopVars, txVars, startVars, imageError, raceVars, res, baseline>>

\* an attempt against the legacy directory endpoint fails
FallbackAttemptFails ==
  /\ pc = "v2"
  /\ FailedAttempt(DirectoryRetries, AfterFallbackFailure)
  /\ directoryState' = IF IsLastAttempt(attempt, DirectoryRetries)
                         THEN "failed" ELSE directoryState
  /\ fetchError' = IF IsLastAttempt(attempt, DirectoryRetries)
                     THEN "exhausted" ELSE fetchError
  /\ UNCHANGED <<upstreamDir, upstreamRates, storeVars, clock, ratesState,
                 countries, exchangeRates, loopVars, txVars, startVars, imageError, raceVars, res,
                 baseline>>

\* an attempt against the legacy endpoint answers with the directory
FallbackAttemptSucceeds ==
  /\ pc = "v2"
  /\ upstreamDir' \in Directories
  /\ baseline' = StillComparable(baseline, "dir", upstreamDir')
  /\ countries' = upstreamDir'
  /\ directoryState' = "ok"
  /\ pc' = "rates"
  /\ attempt' = 0
  /\ delays' = <<>>
  /\ UNCHANGED <<upstreamRates, storeVars, clock, fetchError, ratesState,
                 exchangeRates, loopVars, txVars, startVars, imageError, raceVars, res>>

\* the catch of the directory step: the failed run is logged through the
\* pool and 503 is sent
DirectoryUnavailable ==
  /\ pc = "dir_failed"
  /\ refresh_metadata' = Append(refresh_metadata,
       MetadataRow(0, clock - startTime, StatusDirectoryFailed, clock))
  /\ res' = Response("refresh", 503, 0, NULL, <<>>, <<>>)
  /\ pc' = "idle"
  /\ UNCHANGED <<upstreamDir, upstreamRates, countriesRows, artifact, clock, fetchVars, loopVars,
                 txVars, startVars, imageError, raceVars, baseline>>

\* an attempt against the exchange-rate endpoint fails
RatesAttemptFails ==
  /\ pc = "rates"
  /\ FailedAttempt(RatesRetries, AfterRatesFailure)
  /\ ratesState' = IF IsLastAttempt(attempt, RatesRetries)
                     THEN "failed" ELSE ratesState
  /\ fetchError' = IF IsLastAttempt(attempt, RatesRetries)
                     THEN "exhausted" ELSE fetchError
  /\ UNCHANGED <<upstreamDir, upstreamRates, storeVars, clock, directoryState,
                 countries, exchangeRates, loopVars, txVars, startVars, imageError, raceVars, res,
                 baseline>>

\* an attempt against the exchange-rate endpoint answers; the body is
\* checked and either becomes the rate table or is thrown away
RatesAttemptSucceeds ==
  /\ pc = "rates"
  /\ attempt' = 0
  /\ delays' = <<>>
  /\ upstreamRates' \in RateResponses
  /\ baseline' = StillComparable(baseline, "rates", upstreamRates')
  /\ IF RatesResponseValid(upstreamRates')
       THEN /\ exchangeRates' = upstreamRates'.m
            /\ ratesState' = "ok"
            /\ fetchError' = fetchError
            /\ pc' = "connect"
       ELSE /\ exchangeRates' = exchangeRates
            /\ ratesState' = "failed"
            /\ fetchError' = "malformed"
            /\ pc' = AfterRatesFailure
  /\ UNCHANGED <<upstreamDir, storeVars, clock, directoryState,
                 countries, loopVars, txVars, startVars, imageError, raceVars, res>>

\* the catch of the rate step: the failed run is logged through the pool
\* and 503 is sent
RatesUnavailable ==
  /\ pc = "rates_failed"
  /\ refresh_metadata' = Append(refresh_metadata,
       MetadataRow(0, clock - startTime, StatusRatesFailed, clock))
  /\ res' = Response("refresh", 503, 0, NULL, <<>>, <<>>)
  /\ pc' = "idle"
  /\ UNCHANGED <<upstreamDir, upstreamRates, countriesRows, artifact, clock, fetchVars, loopVars,
                 txVars, startVars, imageError, raceVars, baseline>>

\* a refresh that empties the table before it refills it
TransactionViewCleared(committed) == {}

\* what the transaction sees after BEGIN: the committed rows
TransactionView(committed) == committed

\* pool.connect() and BEGIN
BeginTransaction ==
  /\ pc = "connect"
  /\ clientState' = "held"
  /\ txState' = "open"
  /\ txRows' = TransactionView(countriesRows)
  /\ pc' = "loop"
  /\ UNCHANGED <<upstreamDir, upstreamRates, storeVars, clock, fetchVars, loopVars, releases,
                 thrown, startVars, imageError, raceVars, res, baseline>>

\* one iteration of the persist loop on a record that fails validation
RejectRecord ==
  /\ pc = "loop"
  /\ idx < Len(countries)
  /\ ~IsValid(countries[idx + 1])
  /\ validationErrors' = Append(validationErrors,
       [country_index |-> idx,
        country_name |-> IF Truthy(countries[idx + 1].name)
                           THEN countries[idx + 1].name
                           ELSE JSStr(<<"Unknown">>),
        errors |-> validateCountryData(countries[idx + 1])])
  /\ idx' = idx + 1
  /\ UNCHANGED <<upstreamDir, upstreamRates, storeVars, clock, pc, fetchVars, processedCount,
                 rateWarnings, txVars, startVars, imageError, raceVars, res, baseline>>

\* one iteration of the persist loop on a valid record whose INSERT succeeds
UpsertRecord ==
  /\ pc = "loop"
  /\ idx < Len(countries)
  /\ IsValid(countries[idx + 1])
  /\ \E gdpMultiplier \in
         IF NeedsFactor(countries[idx + 1], exchangeRates)
           THEN GDPFactors ELSE {GdpFactorLow} :
       LET country == countries[idx + 1]
           rec == Reconcile(country, exchangeRates, gdpMultiplier)
       IN  /\ txRows' = Upsert(txRows, InsertValues(country, rec), clock)
           /\ rateWarnings' =
                IF rec.warned
                  THEN Append(rateWarnings,
                              [code |-> rec.currency_code[1], name |-> country.name.s])
                  ELSE rateWarnings
  /\ processedCount' = processedCount + 1
  /\ idx' = idx + 1
  /\ UNCHANGED <<upstreamDir, upstreamRates, storeVars, clock, pc, fetchVars, validationErrors,
                 txState, clientState, releases, thrown, startVars, imageError, raceVars, res,
                 baseline>>

\* one iteration of the persist loop on a valid record whose INSERT is
\* refused by the store: the error goes to the catch block
UpsertFails ==
  /\ pc = "loop"
  /\ idx < Len(countries)
  /\ IsValid(countries[idx + 1])
  /\ thrown' = "upsert"
  /\ pc' = "catch"
  /\ UNCHANGED <<upstreamDir, upstreamRates, storeVars, clock, fetchVars, loopVars, txRows,
                 txState, clientState, releases, startVars, imageError, raceVars, res, baseline>>

\* the loop is over and every record was rejected: ROLLBACK, 400, and the
\* finally block releases the client
ValidationFailed ==
  /\ pc = "loop"
  /\ idx = Len(countries)
  /\ AllRejected(validationErrors, processedCount)
  /\ countriesRows' = Rollback(countriesRows, txRows)
  /\ txState' = "rolledback"
  /\ clientState' = "released"
  /\ releases' = releases + 1
  /\ res' = Response("refresh", 400, 0, NULL, <<>>, <<>>)
  /\ pc' = "idle"
  /\ UNCHANGED <<upstreamDir, upstreamRates, refresh_metadata, artifact, clock, fetchVars,
                 loopVars, txRows, thrown, startVars, imageError, raceVars, baseline>>

\* the loop is over and the run goes on
LoopDone ==
  /\ pc = "loop"
  /\ idx = Len(countries)
  /\ ~AllRejected(validationErrors, processedCount)
  /\ pc' = "image"
  /\ UNCHANGED <<upstreamDir, upstreamRates, storeVars, clock, fetchVars, loopVars, txVars,
                 startVars, imageError, raceVars, res, baseline>>

\* what generateSummaryImage renders from its reads through the pool
SummaryContent(rows, meta, now) ==
  [total |-> IF LatestRun(meta) = NULL THEN 0
               ELSE LatestRun(meta)[1].total_countries,
   top5 |-> getTop5CountriesByGDP(rows),
   last |-> IF LatestRun(meta) = NULL THEN now
              ELSE LatestRun(meta)[1].last_refresh_timestamp]

\* generateSummaryImage writes cache/summary.png
GenerateSummaryImage ==
  /\ pc = "image"
  /\ artifact' = Some(SummaryContent(countriesRows, refresh_metadata, clock))
  /\ pc' = "log"
  /\ UNCHANGED <<upstreamDir, upstreamRates, countriesRows, refresh_metadata, clock, fetchVars,
                 loopVars, txVars, startVars, imageError, raceVars, res, baseline>>

\* the steps of generateSummaryImage that can throw: creating the cache
\* directory, the reads through the pool, the rendering, the file write
ImageSteps == {"mkdir", "read", "render", "write"}

\* a generateSummaryImage without its try/catch: the error reaches the
\* caller's catch block
AfterImageFailureThrows == "catch"

\* where the request goes when a step of generateSummaryImage threw: the
\* function's own catch logs the error and returns
AfterImageFailure == "log"

\* generateSummaryImage fails inside; its catch logs and returns
GenerateSummaryImageFails ==
  /\ pc = "image"
  /\ imageError' \in ImageSteps
  /\ pc' = AfterImageFailure
  /\ UNCHANGED <<upstreamDir, upstreamRates, storeVars, clock, fetchVars, loopVars, txVars,
                 startVars, raceVars, res, baseline>>

\* logRefreshMetadata(processedCount, duration, "completed"), through the
\* pool, so committed at once
LogCompleted ==
  /\ pc = "log"
  /\ refresh_metadata' = Append(refresh_metadata,
       MetadataRow(processedCount, clock - startTime, StatusCompleted, clock))
  /\ pc' = "commit"
  /\ UNCHANGED <<upstreamDir, upstreamRates, countriesRows, artifact, clock, fetchVars, loopVars,
                 txVars, startVars, imageError, raceVars, res, baseline>>

\* COMMIT succeeds
CommitSucceeds ==
  /\ pc = "commit"
  /\ countriesRows' = Commit(countriesRows, txRows)
  /\ txState' = "committed"
  /\ pc' = "top5"
  /\ UNCHANGED <<upstreamDir, upstreamRates, refresh_metadata, artifact, clock, fetchVars,
                 loopVars, txRows, clientState, releases, thrown, startVars, imageError, raceVars,
                 res, baseline>>

\* COMMIT fails: the error goes to the catch block
CommitFails ==
  /\ pc = "commit"
  /\ thrown' = "commit"
  /\ pc' = "catch"
  /\ UNCHANGED <<upstreamDir, upstreamRates, storeVars, clock, fetchVars, loopVars, txRows,
                 txState, clientState, releases, startVars, imageError, raceVars, res, baseline>>

\* the top-5 read after the commit succeeds: 200 is sent and the finally
\* block releases the client
RespondSuccess ==
  /\ pc = "top5"
  /\ res' = Response("refresh", 200, processedCount, Some(clock - startTime),
                     formatTop5CountriesForResponse(getTop5CountriesByGDP(countriesRows)),
                     validationErrors)
  /\ clientState' = "released"
  /\ releases' = releases + 1
  /\ baseline' = IF baseline = NULL
                   THEN Some([dir |-> upstreamDir,
                              rates |-> upstreamRates,
                              names |-> Names(countriesRows),
                              count |-> Cardinality(countriesRows),
                              successes |-> 1])
                   ELSE Some([baseline[1] EXCEPT !.successes = @ + 1])
  /\ pc' = "idle"
  /\ UNCHANGED <<upstreamDir, upstreamRates, storeVars, clock, fetchVars, loopVars, txRows,
                 txState, thrown, startVars, imageError, raceVars>>

\* the top-5 read after the commit fails: the error goes to the catch block
Top5Fails ==
  /\ pc = "top5"
  /\ thrown' = "top5"
  /\ pc' = "catch"
  /\ UNCHANGED <<upstreamDir, upstreamRates, storeVars, clock, fetchVars, loopVars, txRows,
                 txState, clientState, releases, startVars, imageError, raceVars, res, baseline>>

\* a release written after the try statement instead of in a finally block:
\* the rethrow of the catch block skips it
ClientAfterRethrowKept == "held"

\* the state of the client when the catch block has rethrown: the finally
\* block has run client.release()
ClientAfterRethrow == "released"

\* an outer catch block that logs the error and sends nothing
InternalFailureUnanswered == NoResponse

\* res.status(500).json({error: "Internal server error"})
InternalFailure == Response("refresh", 500, 0, NULL, <<>>, <<>>)

\* the catch block of the transaction: ROLLBACK (without effect once the
\* transaction is committed), rethrow to the outer catch, which sends 500;
\* the finally block releases the client
CatchRollback ==
  /\ pc = "catch"
  /\ countriesRows' = IF txState = "open"
                        THEN Rollback(countriesRows, txRows)
                        ELSE countriesRows
  /\ txState' = IF txState = "open" THEN "rolledback" ELSE txState
  /\ clientState' = ClientAfterRethrow
  /\ releases' = IF ClientAfterRethrow = "released" THEN releases + 1 ELSE releases
  /\ res' = InternalFailure
  /\ pc' = "idle"
  /\ UNCHANGED <<upstreamDir, upstreamRates, refresh_metadata, artifact, clock, fetchVars,
                 loopVars, txRows, thrown, startVars, imageError, raceVars, baseline>>

\* the body getRefreshStatus answers with: the fields of the latest run,
\* each with its `||` default
StatusBody(meta) ==
  LET lastRefresh == LatestRun(meta)
      processedCountries ==
        IF lastRefresh # NULL /\ lastRefresh[1].total_countries # 0
          THEN lastRefresh[1].total_countries ELSE 0
  IN  [total_countries |-> processedCountries,
       last_refreshed_at |->
         IF lastRefresh # NULL /\ lastRefresh[1].last_refresh_timestamp # 0
           THEN Some(lastRefresh[1].last_refresh_timestamp) ELSE NULL,
       duration_seconds |->
         IF lastRefresh # NULL /\ lastRefresh[1].refresh_duration_seconds # 0
           THEN lastRefresh[1].refresh_duration_seconds ELSE 0,
       refresh_status |->
         IF lastRefresh # NULL /\ lastRefresh[1].status # ""
           THEN lastRefresh[1].status ELSE "never_refreshed",
       database_status |-> IF processedCountries > 0 THEN "populated" ELSE "empty"]

\* GET /status
getRefreshStatus ==
  /\ pc = "idle"
  /\ res' = [op |-> "status", status |-> 200, body |-> StatusBody(refresh_metadata)]
  /\ UNCHANGED <<upstreamDir, upstreamRates, storeVars, clock, pc, fetchVars,
                 loopVars, txVars, startVars, imageError, raceVars, baseline>>

\* the :name parameter of the DELETE requests
RequestNames == {<<"A">>}

\* the :name parameter of the GET requests: the same name in another casing
LookupNames == {<<"a">>}

\* the answer of a by-name route: `data` is NULL with 404
NameResponse(op, name, data) ==
  [op |-> op, status |-> IF data = NULL THEN 404 ELSE 200,
   request |-> name, data |-> data]

\* SELECT ... FROM countries WHERE LOWER(name) = LOWER($1): the rows found
SelectByName(rows, name) == {r \in rows : Lower(r.name) = Lower(name)}

\* GET /countries/:name
getCountryByName ==
  /\ pc = "idle"
  /\ \E name \in LookupNames :
       res' = NameResponse("get", name,
                IF SelectByName(countriesRows, name) = {} THEN NULL
                ELSE Some(CHOOSE r \in SelectByName(countriesRows, name) : TRUE))
  /\ UNCHANGED <<upstreamDir, upstreamRates, storeVars, clock, pc, fetchVars,
                 loopVars, txVars, startVars, imageError, raceVars, baseline>>

\* DELETE /countries/:name; the answer carries the name RETURNING gave
deleteCountry ==
  /\ pc = "idle"
  /\ \E name \in RequestNames :
       /\ countriesRows' = DeleteMatching(countriesRows, name)
       /\ res' = NameResponse("delete", name,
                    IF countriesRows' = countriesRows THEN NULL
                    ELSE Some((CHOOSE r \in countriesRows \ countriesRows' : TRUE).name))
  /\ baseline' = NULL
  /\ UNCHANGED <<upstreamDir, upstreamRates, refresh_metadata, artifact, clock, pc, fetchVars,
                 loopVars, txVars, startVars, imageError, raceVars>>

Next ==
  \/ StartRefresh
  \/ PrimaryAttemptFails
  \/ PrimaryAttemptSucceeds
  \/ PrimaryAttemptGarbled
  \/ FallbackAttemptFails
  \/ FallbackAttemptSucceeds
  \/ DirectoryUnavailable
  \/ RatesAttemptFails
  \/ RatesAttemptSucceeds
  \/ RatesUnavailable
  \/ BeginTransaction
  \/ RejectRecord
  \/ UpsertRecord
  \/ UpsertFails
  \/ ValidationFailed
  \/ LoopDone
  \/ GenerateSummaryImage
  \/ GenerateSummaryImageFails
  \/ LogCompleted
  \/ CommitSucceeds
  \/ CommitFails
  \/ RespondSuccess
  \/ Top5Fails
  \/ CatchRollback
  \/ deleteCountry
  \/ getRefreshStatus
  \/ getCountryByName

Spec == Init /\ [][Next]_vars

\* the steps of the refresh request in flight
RequestStep ==
  \/ PrimaryAttemptFails
  \/ PrimaryAttemptSucceeds
  \/ PrimaryAttemptGarbled
  \/ FallbackAttemptFails
  \/ FallbackAttemptSucceeds
  \/ DirectoryUnavailable
  \/ RatesAttemptFails
  \/ RatesAttemptSucceeds
  \/ RatesUnavailable
  \/ BeginTransaction
  \/ RejectRecord
  \/ UpsertRecord
  \/ UpsertFails
  \/ ValidationFailed
  \/ LoopDone
  \/ GenerateSummaryImage
  \/ GenerateSummaryImageFails
  \/ LogCompleted
  \/ CommitSucceeds
  \/ CommitFails
  \/ RespondSuccess
  \/ Top5Fails
  \/ CatchRollback

\* the same server when every HTTP attempt and every store operation
\* returns or fails: the request in flight always takes its next step
LiveSpec == Init /\ [][Next]_vars /\ WF_vars(RequestStep)

\* ------------------------------------------------------------------------
\* Two refresh requests at the same time.  Both have fetched their directory
\* and the rate table and are about to take a client from the pool; each
\* statement of a request is one step, and the steps of the two interleave.
\* The store is PostgreSQL at READ COMMITTED: an upsert that meets a row
\* version written by a transaction still open waits for that transaction
\* to end.
\* ------------------------------------------------------------------------
Requests == {1, 2}

Other(p) == 3 - p

\* the directories the two requests were served; every record is valid
RaceDirectories == { <<cA, cB>>, <<cB, cUpperA>>, <<cUpperA>> }

\* the rate table both requests were served
RaceRates == [c \in {"X", "Y"} |-> 2]

\* BEGIN was issued on the request's client and neither COMMIT nor ROLLBACK
TxOpen(p) == racePc[p] \in {"loop", "log", "commit"}

\* the rows the request's statement sees: its own writes, and the committed
\* rows it has not written
RaceView(p) ==
  raceWrites[p] \cup
    {r \in raceRows :
       \A w \in raceWrites[p] : ConflictKey(w.name) # ConflictKey(r.name)}

\* a store without row locks: no statement ever waits
NeverBlocked(p, name) == FALSE

\* the upsert of `name` by request p has to wait: the other request's open
\* transaction has written the row with that key of the unique index
Blocked(p, name) ==
  /\ TxOpen(Other(p))
  /\ \E w \in raceWrites[Other(p)] : ConflictKey(w.name) = ConflictKey(name)

\* the record the request's loop is at
RaceIncoming(p) == raceCountries[p][raceIdx[p] + 1]

AtUpsert(p) == racePc[p] = "loop" /\ raceIdx[p] < Len(raceCountries[p])

RaceInit ==
  /\ RequestInit
  /\ racePc = <<"connect", "connect">>
  /\ raceCountries \in [1..2 -> RaceDirectories]
  /\ raceIdx = <<0, 0>>
  /\ raceNow = <<0, 0>>
  /\ raceClock = 0
  /\ raceWrites = <<{}, {}>>
  /\ raceLastWriter = {}
  /\ raceRows = {}
  /\ raceRuns = <<>>

\* pool.connect() and BEGIN: each request gets a client of its own
RaceBegin(p) ==
  /\ racePc[p] = "connect"
  /\ racePc' = [racePc EXCEPT ![p] = "loop"]
  /\ raceClock' = raceClock + 1
  /\ raceNow' = [raceNow EXCEPT ![p] = raceClock + 1]
  /\ UNCHANGED <<requestVars, raceCountries, raceIdx, raceWrites,
                 raceLastWriter, raceRows, raceRuns>>

\* one iteration of the persist loop: the INSERT ... ON CONFLICT of the
\* record, once it does not have to wait
RaceUpsert(p) ==
  /\ AtUpsert(p)
  /\ ~Blocked(p, RaceIncoming(p).name.s)
  /\ \E gdpMultiplier \in
         IF NeedsFactor(RaceIncoming(p), RaceRates)
           THEN GDPFactors ELSE {GdpFactorLow} :
       LET country == RaceIncoming(p)
           rec == Reconcile(country, RaceRates, gdpMultiplier)
           after == Upsert(RaceView(p), InsertValues(country, rec), raceNow[p])
           mine == {ConflictKey(w.name) : w \in raceWrites[p]}
                     \cup {ConflictKey(country.name.s)}
       IN  raceWrites' = [raceWrites EXCEPT
                            ![p] = {r \in after : ConflictKey(r.name) \in mine}]
  /\ raceLastWriter' =
       {e \in raceLastWriter : e[1] # ConflictKey(RaceIncoming(p).name.s)}
         \cup {<<ConflictKey(RaceIncoming(p).name.s), p>>}
  /\ raceIdx' = [raceIdx EXCEPT ![p] = @ + 1]
  /\ UNCHANGED <<requestVars, racePc, raceCountries, raceNow, raceClock,
                 raceRows, raceRuns>>

\* each request waits for a row the other has written: the store detects
\* the deadlock and fails the statement of one of them, whose catch block
\* rolls back and whose answer is 500
RaceDeadlock(p) ==
  /\ AtUpsert(p) /\ Blocked(p, RaceIncoming(p).name.s)
  /\ AtUpsert(Other(p)) /\ Blocked(Other(p), RaceIncoming(Other(p)).name.s)
  /\ raceWrites' = [raceWrites EXCEPT ![p] = {}]
  /\ racePc' = [racePc EXCEPT ![p] = "failed"]
  /\ UNCHANGED <<requestVars, raceCountries, raceIdx, raceNow, raceClock,
                 raceLastWriter, raceRows, raceRuns>>

\* the loop is over; generateSummaryImage changes neither table
RaceLoopDone(p) ==
  /\ racePc[p] = "loop"
  /\ raceIdx[p] = Len(raceCountries[p])
  /\ racePc' = [racePc EXCEPT ![p] = "log"]
  /\ UNCHANGED <<requestVars, raceCountries, raceIdx, raceNow, raceClock,
                 raceWrites, raceLastWriter, raceRows, raceRuns>>

\* logRefreshMetadata(processedCount, duration, "completed") through the pool
RaceLogCompleted(p) ==
  /\ racePc[p] = "log"
  /\ raceRuns' = Append(raceRuns,
       MetadataRow(raceIdx[p], 0, StatusCompleted, raceClock))
  /\ racePc' = [racePc EXCEPT ![p] = "commit"]
  /\ UNCHANGED <<requestVars, raceCountries, raceIdx, raceNow, raceClock,
                 raceWrites, raceLastWriter, raceRows>>

\* COMMIT: the request's row versions replace the committed ones
RaceCommit(p) ==
  /\ racePc[p] = "commit"
  /\ raceRows' = Commit(raceRows, RaceView(p))
  /\ racePc' = [racePc EXCEPT ![p] = "done"]
  /\ UNCHANGED <<requestVars, raceCountries, raceIdx, raceNow, raceClock,
                 raceWrites, raceLastWriter, raceRuns>>

RaceNext ==
  \E p \in Requests :
    \/ RaceBegin(p)
    \/ RaceUpsert(p)
    \/ RaceDeadlock(p)
    \/ RaceLoopDone(p)
    \/ RaceLogCompleted(p)
    \/ RaceCommit(p)

RaceSpec == RaceInit /\ [][RaceNext]_vars

\* ------------------------------------------------------------------------
\* Properties
\* ------------------------------------------------------------------------

\* the refresh request has just been answered
Returned == pc = "idle" /\ res.op = "refresh"

\* the rows of refresh_metadata this request inserted
NewRuns == SubSeq(refresh_metadata, startRuns + 1, Len(refresh_metadata))

\* C1: no two persisted rows of countries have names that are equal under
\* case-insensitive comparison, after any sequence of refreshes and deletes.
C1_NamesUniqueCaseInsensitive ==
  \A r \in countriesRows :
    Cardinality({q \in countriesRows : Lower(q.name) = Lower(r.name)}) = 1

\* C1 witness: a committed refresh carried a record whose name differs only
\* in case from the name of a row created by an earlier run, and that row
\* was updated.
C1_Witness ==
  /\ Returned
  /\ res.status = 200
  /\ \E r \in countriesRows : \E k \in DOMAIN countries :
       /\ IsValid(countries[k])
       /\ countries[k].name.s # r.name
       /\ Lower(countries[k].name.s) = Lower(r.name)
       /\ r.created_at < r.updated_at

\* C2: a successful refresh that follows a successful refresh over the same
\* upstream directory and rate table (no delete in between) leaves the same
\* set of names and the same number of rows.
C2_RefreshIdempotent ==
  (Returned /\ res.status = 200 /\ baseline # NULL)
    => /\ Names(countriesRows) = baseline[1].names
       /\ Cardinality(countriesRows) = baseline[1].count

\* C2 witness: the second success over unchanged upstream data, with rows
\* written.
C2_Witness ==
  /\ Returned
  /\ res.status = 200
  /\ baseline # NULL
  /\ baseline[1].successes >= 2
  /\ processedCount >= 1

\* C3: when the directory fetch, or the rate fetch after it, has failed,
\* the request leaves the countries rows as they were, records one run with
\* total 0 and the matching failed status, and answers 503.
C3_SourceUnavailable ==
  (Returned /\ (directoryState = "failed" \/ ratesState = "failed"))
    => /\ res.status = 503
       /\ countriesRows = startRows
       /\ Len(NewRuns) = 1
       /\ NewRuns[1].total_countries = 0
       /\ NewRuns[1].status = IF directoryState = "failed"
                                THEN StatusDirectoryFailed
                                ELSE StatusRatesFailed

\* C3 witness: after an earlier run ended directory-unavailable, a run whose
\* rate attempts all failed has been answered.
C3_Witness ==
  /\ Returned
  /\ res.status = 503
  /\ directoryState = "ok"
  /\ fetchError = "exhausted"
  /\ startRuns = 1
  /\ refresh_metadata[1].status = StatusDirectoryFailed

\* C4 (as claimed): every refresh request inserts exactly one row into
\* refresh_metadata, whatever its outcome.
C4_ExactlyOneRunPerInvocation ==
  Returned => Len(NewRuns) = 1

\* C5: when an upsert of the persist loop fails, the committed rows equal
\* the rows the request started from; and no write of an open transaction
\* is visible in the committed rows.
C5_BatchAtomicity ==
  /\ txState = "open" => countriesRows = startRows
  /\ (Returned /\ thrown = "upsert")
       => (countriesRows = startRows /\ txState = "rolledback")

\* C5 witness: an upsert failed after the transaction had already changed
\* rows.
C5_Witness ==
  /\ Returned
  /\ thrown = "upsert"
  /\ processedCount >= 1
  /\ txRows # startRows

\* C6 (as claimed): when an upsert or the COMMIT fails, the request answers
\* 500 and has recorded a run whose status is a failure, and no run with
\* status completed.
C6_FailedBatchRecordedAsFailed ==
  (Returned /\ thrown \in {"upsert", "commit"})
    => /\ res.status = 500
       /\ Len(NewRuns) >= 1
       /\ \A k \in DOMAIN NewRuns : NewRuns[k].status # StatusCompleted

\* C7: the directory fetch is over before the rate fetch begins, the rate
\* fetch is over before the transaction begins, and the rate API is called
\* exactly when the directory fetch succeeded.
C7_StepsSequential ==
  /\ pc \in {"v3", "v2"} => (directoryState = "pending" /\ ratesState = "pending")
  /\ (ratesState # "pending" \/ pc = "rates") => directoryState = "ok"
  /\ (txState # "none" \/ idx > 0 \/ processedCount > 0)
       => (directoryState = "ok" /\ ratesState = "ok")
  /\ Returned => (ratesState # "pending" <=> directoryState = "ok")

\* C7 witness: the rate API was called for a directory in which no record
\* has a currency code.
C7_Witness ==
  /\ Returned
  /\ ratesState # "pending"
  /\ countries # <<>>
  /\ \A k \in DOMAIN countries : extractCurrencyCode(countries[k].currencies) = NULL

\* every fetched record was rejected by validation
AllFetchedRejected ==
  /\ Len(countries) > 0
  /\ Len(validationErrors) = Len(countries)

\* C8: when every fetched record was rejected, the request answers 400, its
\* transaction is rolled back, the rows are as before and no completed run
\* is recorded.
C8_AllRejectedRollsBack ==
  (Returned /\ AllFetchedRejected)
    => /\ res.status = 400
       /\ txState = "rolledback"
       /\ countriesRows = startRows
       /\ \A k \in DOMAIN NewRuns : NewRuns[k].status # StatusCompleted

\* C8 witness: a directory of several records, all rejected, met a store
\* that already had rows.
C8_Witness ==
  /\ Returned
  /\ AllFetchedRejected
  /\ Len(countries) >= 2
  /\ startRows # {}

\* what the specification rejects: a name that is missing or blank after
\* trimming, a population that is missing, not a number or negative
ShouldBeRejected(country) ==
  \/ country.name.t # "string"
  \/ Trim(country.name.s) = <<>>
  \/ country.population.t # "number"
  \/ country.population.n < 0

\* C9 (as claimed): every record handled so far that has a missing or blank
\* name or a missing, non-numeric or negative population is among the
\* validation errors, and a completed run counts the others.
C9_InvalidRecordsSkipped ==
  /\ \A k \in 1..idx :
       ShouldBeRejected(countries[k])
         => \E j \in DOMAIN validationErrors :
              validationErrors[j].country_index = k - 1
  /\ (Returned /\ res.status = 200)
       => processedCount =
            Len(countries) - Cardinality({k \in DOMAIN countries :
                                            ShouldBeRejected(countries[k])})

\* the record has no currency code: currencies absent, not a map, or a map
\* without keys
NoCurrencyCode(currencies) ==
  currencies.t # "object" \/ currencies.keys = <<>>

\* the record at index k is the last one so far to write its row
LastWriter(k) ==
  /\ IsValid(countries[k])
  /\ \A j \in (k + 1)..idx :
       ~(IsValid(countries[j])
          /\ Lower(countries[j].name.s) = Lower(countries[k].name.s))

\* C10: the row written for a valid record without currency code has
\* currency_code NULL, exchange_rate NULL and estimated_gdp 0, whatever the
\* rate table holds.
C10_NoCurrencyGivesZero ==
  txState \in {"open", "committed"}
    => \A k \in 1..idx :
         (LastWriter(k) /\ NoCurrencyCode(countries[k].currencies))
           => \E r \in txRows :
                /\ Lower(r.name) = Lower(countries[k].name.s)
                /\ r.currency_code = NULL
                /\ r.exchange_rate = NULL
                /\ r.estimated_gdp = Some(0)

\* C10 witness: a record whose currencies member is null was committed
\* while the rate table had entries.
C10_Witness ==
  /\ Returned
  /\ res.status = 200
  /\ DOMAIN exchangeRates # {}
  /\ \E k \in DOMAIN countries : \E r \in countriesRows :
       /\ countries[k].currencies.t = "null"
       /\ Lower(r.name) = Lower(countries[k].name.s)
       /\ r.estimated_gdp = Some(0)

\* the record has a currency code: currencies is a map with a first key
HasCurrencyCode(currencies) ==
  currencies.t = "object" /\ currencies.keys # <<>> /\ currencies.keys[1] # ""

\* the rate table has no entry for the record's code, or one that is <= 0
NoUsableRate(currencies, rates) ==
  \/ currencies.keys[1] \notin DOMAIN rates
  \/ rates[currencies.keys[1]] <= 0

\* the valid records among the first n fetched
ValidUpTo(n) == {k \in 1..n : IsValid(countries[k])}

\* C11: a valid record with a currency code whose rate is missing or <= 0 is
\* written with that code, exchange_rate NULL and estimated_gdp NULL, is
\* counted in processedCount, has a warning naming its country and its code,
\* and the run, when nothing else fails, is answered 200 and recorded as
\* completed with that count.
C11_NoRateGivesNull ==
  /\ txState \in {"open", "committed"}
       => /\ processedCount = Cardinality(ValidUpTo(idx))
          /\ \A k \in ValidUpTo(idx) :
               (HasCurrencyCode(countries[k].currencies)
                 /\ NoUsableRate(countries[k].currencies, exchangeRates))
                 => /\ \E j \in DOMAIN rateWarnings :
                         /\ rateWarnings[j].name = countries[k].name.s
                         /\ rateWarnings[j].code = countries[k].currencies.keys[1]
                    /\ LastWriter(k)
                         => \E r \in txRows :
                              /\ Lower(r.name) = Lower(countries[k].name.s)
                              /\ r.currency_code = Some(countries[k].currencies.keys[1])
                              /\ r.exchange_rate = NULL
                              /\ r.estimated_gdp = NULL
  /\ (Returned /\ rateWarnings # <<>> /\ thrown = "none")
       => /\ res.status = 200
          /\ res.total = processedCount
          /\ Len(NewRuns) = 1
          /\ NewRuns[1].status = StatusCompleted
          /\ NewRuns[1].total_countries = processedCount

\* C11 witness: a run was answered 200 after committing a record whose code
\* has a rate <= 0 in the table, and one warning was logged.
C11_Witness ==
  /\ Returned
  /\ res.status = 200
  /\ Len(rateWarnings) = 1
  /\ \E k \in DOMAIN countries : \E r \in countriesRows :
       /\ HasCurrencyCode(countries[k].currencies)
       /\ countries[k].currencies.keys[1] \in DOMAIN exchangeRates
       /\ exchangeRates[countries[k].currencies.keys[1]] <= 0
       /\ r.name = countries[k].name.s
       /\ r.estimated_gdp = NULL
       /\ r.currency_code # NULL

\* the record has a currency code whose rate in the table is positive
HasPositiveRate(currencies, rates) ==
  /\ HasCurrencyCode(currencies)
  /\ currencies.keys[1] \in DOMAIN rates
  /\ rates[currencies.keys[1]] > 0

\* the row the record at index k wrote
RowOf(k) == CHOOSE r \in txRows : Lower(r.name) = Lower(countries[k].name.s)

\* the records handled so far whose row holds a computed estimate
Computed ==
  {k \in ValidUpTo(idx) :
     LastWriter(k) /\ HasPositiveRate(countries[k].currencies, exchangeRates)}

\* C12 (as claimed): the estimate of a record with a code and a positive
\* rate lies strictly between population x 1000 / rate and
\* population x 2000 / rate.  estimated_gdp is in hundredths, so both sides
\* are multiplied by 100 x rate.
C12_EstimateStrictlyBetween ==
  txState \in {"open", "committed"}
    => \A k \in Computed :
         LET r == RowOf(k)
             rate == exchangeRates[countries[k].currencies.keys[1]]
         IN  /\ r.estimated_gdp # NULL
             /\ r.population * GdpFactorLow * 100 < r.estimated_gdp[1] * rate
             /\ r.estimated_gdp[1] * rate < r.population * GdpFactorHigh * 100

\* C12 (amended): the estimate of a record with a code and a positive rate
\* lies between population x 1000 / rate and population x 2000 / rate, both
\* ends included, up to the rounding of the column to two decimals (half a
\* hundredth); it is 0 when the population is 0.
C12_EstimateBetween ==
  txState \in {"open", "committed"}
    => \A k \in Computed :
         LET r == RowOf(k)
             rate == exchangeRates[countries[k].currencies.keys[1]]
         IN  /\ r.estimated_gdp # NULL
             /\ r.exchange_rate = Some(rate)
             /\ 2 * r.population * GdpFactorLow * 100 - rate
                  <= 2 * r.estimated_gdp[1] * rate
             /\ 2 * r.estimated_gdp[1] * rate
                  <= 2 * r.population * GdpFactorHigh * 100 + rate
             /\ r.population = 0 => r.estimated_gdp = Some(0)

\* C12 witness: a committed record with a positive population whose estimate
\* is exactly population x 1000 / rate, the factor Math.random() = 0 gives.
C12_Witness ==
  /\ Returned
  /\ res.status = 200
  /\ \E k \in Computed :
       /\ RowOf(k).population > 0
       /\ RowOf(k).estimated_gdp[1] * exchangeRates[countries[k].currencies.keys[1]]
            = RowOf(k).population * GdpFactorLow * 100

\* every row a reader or the open transaction can see
PersistedRows == countriesRows \cup txRows

\* C13 (as claimed): in every persisted row the estimate is NULL only with a
\* code and no usable rate, 0 only without a code, and positive whenever it
\* was computed from a code and a rate.
C13_EstimateDistinguishesCases ==
  \A r \in PersistedRows :
    /\ r.estimated_gdp = NULL => (r.currency_code # NULL /\ r.exchange_rate = NULL)
    /\ r.estimated_gdp = Some(0) => r.currency_code = NULL
    /\ r.exchange_rate # NULL => (r.estimated_gdp # NULL /\ r.estimated_gdp[1] > 0)

\* C13 (amended): in every persisted row the estimate is NULL exactly when
\* the row has a code and no usable rate; it is 0 only without a code or
\* with a population whose estimate rounds to 0 (in particular population
\* 0); a computed estimate is never negative and is positive as soon as
\* population x 1000 / rate is at least half a hundredth.
C13_EstimateCases ==
  \A r \in PersistedRows :
    /\ r.estimated_gdp = NULL <=> (r.currency_code # NULL /\ r.exchange_rate = NULL)
    /\ r.currency_code = NULL => (r.exchange_rate = NULL /\ r.estimated_gdp = Some(0))
    /\ r.estimated_gdp = Some(0)
         => \/ r.currency_code = NULL
            \/ /\ r.exchange_rate # NULL
               /\ 2 * r.population * GdpFactorLow * 100 < r.exchange_rate[1]
    /\ r.exchange_rate # NULL
         => /\ r.currency_code # NULL
            /\ r.exchange_rate[1] > 0
            /\ r.estimated_gdp # NULL
            /\ r.estimated_gdp[1] >= 0
            /\ 2 * r.population * GdpFactorLow * 100 >= r.exchange_rate[1]
                 => r.estimated_gdp[1] > 0

\* C13 witness: the committed rows hold a record with a code and a rate whose
\* computed estimate is 0, because its population is 0.
C13_Witness ==
  /\ Returned
  /\ res.status = 200
  /\ \E r \in countriesRows :
       /\ r.currency_code # NULL
       /\ r.exchange_rate # NULL
       /\ r.population = 0
       /\ r.estimated_gdp = Some(0)

C15_ArtifactFailureNotPropagated ==
  imageError # "none"
    => /\ pc \in {"log", "commit", "top5", "catch", "idle"}
       /\ pc = "catch" => thrown \in {"commit", "top5"}
       /\ (Returned /\ thrown = "none")
            => /\ res.status = 200
               /\ res.total = processedCount
               /\ txState = "committed"
               /\ countriesRows = txRows
               /\ Len(NewRuns) = 1
               /\ NewRuns[1].status = StatusCompleted
               /\ NewRuns[1].total_countries = processedCount

\* C15 witness: a refresh that wrote a record was answered 200 although the
\* file write of the artifact failed.
C15_Witness ==
  /\ Returned
  /\ res.status = 200
  /\ imageError = "write"
  /\ processedCount > 0
  /\ artifact = startArtifact

\* C16 (as claimed): while a request is in flight or just answered, the
\* artifact differs from what it was at the start only if this run's batch
\* is committed, and a run that is not answered 200 leaves the artifact as
\* it was.
C16_ArtifactOnlyAfterCommit ==
  /\ artifact # startArtifact => txState = "committed"
  /\ (Returned /\ res.status # 200) => artifact = startArtifact

\* the retries argument of the fetchWithRetry call in progress
RetriesAt(p) == IF p = "rates" THEN RatesRetries ELSE DirectoryRetries

InFetch == pc \in {"v3", "v2", "rates"}

\* the call in progress is at attempt number attempt + 1, which is at most
\* retries, and has waited once after each earlier, failed attempt
FetchBounded ==
  IF InFetch
    THEN /\ attempt <= RetriesAt(pc) - 1
         /\ Len(delays) = attempt
         /\ \A k \in DOMAIN delays : delays[k] = RetryDelay(k - 1)
    ELSE attempt = 0 /\ delays = <<>>

\* a failed attempt: a wait and one more attempt unless it was the last,
\* else the call throws at once, without wait
FailedAttemptStep ==
  (PrimaryAttemptFails \/ FallbackAttemptFails \/ RatesAttemptFails)
    => IF attempt = RetriesAt(pc) - 1
         THEN /\ pc' \notin {pc, "rates", "connect"}
              /\ attempt' = 0
              /\ delays' = <<>>
              /\ pc \in {"v2", "rates"} => fetchError' = "exhausted"
              /\ countries' = countries
              /\ exchangeRates' = exchangeRates
         ELSE /\ pc' = pc
              /\ attempt' = attempt + 1
              /\ delays' = Append(delays, RetryDelay(attempt))
              /\ fetchError' = fetchError

\* a successful attempt ends the call: its response is what the caller
\* goes on with, and no further attempt is made
SuccessfulAttemptStep ==
  /\ PrimaryAttemptSucceeds
       => /\ pc' = "rates"
          /\ attempt' = 0
          /\ countries' = [k \in DOMAIN upstreamDir' |->
                             NormalizeV3(V3Entry(upstreamDir'[k]))]
  /\ FallbackAttemptSucceeds
       => (pc' = "rates" /\ attempt' = 0 /\ countries' = upstreamDir')
  /\ (RatesAttemptSucceeds /\ upstreamRates'.t = "object")
       => (pc' = "connect" /\ attempt' = 0 /\ exchangeRates' = upstreamRates'.m)

\* C17: fetchWithRetry makes at most `retries` attempts; after a failed
\* attempt it waits and retries unless that attempt was the last, in which
\* case it throws without further wait or attempt; the first successful
\* attempt ends the call and its response is the one returned.
C17_RetryingFetcher ==
  /\ []FetchBounded
  /\ [][FailedAttemptStep /\ SuccessfulAttemptStep]_vars

\* C17 witness: the rate fetch has failed seven times, has waited after each
\* failure and is at its eighth and last attempt.
C17_Witness ==
  /\ pc = "rates"
  /\ attempt = RatesRetries - 1
  /\ Len(delays) = RatesRetries - 1
  /\ delays[1] = 2000
  /\ delays[3] = 15000

\* the primary directory step ends in failure: its last attempt fails, or
\* its response cannot be brought to the legacy shape
PrimaryFails ==
  \/ PrimaryAttemptFails /\ IsLastAttempt(attempt, DirectoryRetries)
  \/ PrimaryAttemptGarbled

\* the legacy directory step ends in failure
FallbackFails == FallbackAttemptFails /\ IsLastAttempt(attempt, DirectoryRetries)

\* the order of the directory step
DirectoryStepOrder ==
  /\ (pc = "idle" /\ pc' # "idle") => pc' = "v3"
  /\ (pc # "v3" /\ pc' = "v3") => pc = "idle"
  /\ (pc # "v2" /\ pc' = "v2") => (pc = "v3" /\ PrimaryFails)
  /\ PrimaryFails => (pc' = "v2" /\ countries' = <<>>)
  /\ PrimaryAttemptSucceeds => pc' = "rates"
  /\ pc = "v2" => pc' \in {"v2", "rates", "dir_failed"}
  /\ FallbackFails
       => (pc' = "dir_failed" /\ fetchError' = "exhausted" /\ countries' = <<>>)
  /\ pc' = "dir_failed" => (pc = "v2" /\ FallbackFails)

\* a failed directory step passes nothing on
DirectoryFailurePassesNothing ==
  /\ pc \in {"v3", "v2", "dir_failed"} => countries = <<>>
  /\ directoryState = "failed"
       => /\ pc \in {"dir_failed", "idle"}
          /\ countries = <<>>
          /\ ratesState = "pending"
          /\ txState = "none"
          /\ idx = 0
          /\ processedCount = 0
          /\ (pc # "idle" \/ Returned) => countriesRows = startRows
          /\ Returned => res.status = 503

ProperRateTable(rates) ==
  /\ rates.t = "object"
  /\ DOMAIN rates.m # {}
  /\ \A c \in DOMAIN rates.m : rates.m[c] > 0

\* C19 (as claimed): the rate step hands on a rate table only when the
\* response is a non-empty mapping of code to positive rate; with any other
\* response the request is answered 503, records one rates-unavailable run
\* and leaves the rows as they were.
C19_OnlyProperRateTablesAccepted ==
  /\ ratesState = "ok" => ProperRateTable(upstreamRates)
  /\ (Returned /\ ratesState # "pending" /\ ~ProperRateTable(upstreamRates))
       => /\ res.status = 503
          /\ Len(NewRuns) = 1
          /\ NewRuns[1].status = StatusRatesFailed
          /\ countriesRows = startRows

\* the record the persist loop is about to handle
Incoming == countries[idx + 1]

\* the upsert of the incoming record onto the row `old` it conflicts with
\* left the row `new`
OverwrittenBy(old, new) ==
  /\ new.name = old.name
  /\ new.created_at = old.created_at
  /\ new.last_refreshed_at = clock
  /\ new.updated_at = clock
  /\ new.capital = Incoming.capital
  /\ new.region = Incoming.region
  /\ new.flag_url = Incoming.flag
  /\ new.population = (IF Truthy(Incoming.population)
                         THEN ToNumber(Incoming.population).n ELSE 0)
  /\ new.currency_code = extractCurrencyCode(Incoming.currencies)
  /\ \E g \in GDPFactors :
       /\ new.exchange_rate = Reconcile(Incoming, exchangeRates, g).exchange_rate
       /\ new.estimated_gdp = Reconcile(Incoming, exchangeRates, g).estimated_gdp

\* an upsert that meets a row with the same name, case-insensitively
ConflictingUpsertStep ==
  (UpsertRecord /\ Conflicting(txRows, Incoming.name.s) # {})
    => /\ Cardinality(txRows') = Cardinality(txRows)
       /\ \A old \in Conflicting(txRows, Incoming.name.s) :
            \E new \in txRows' : OverwrittenBy(old, new)
       /\ \A r \in txRows \ Conflicting(txRows, Incoming.name.s) : r \in txRows'

\* C20: an upsert that conflicts with a row sets capital, region,
\* population, currency_code, exchange_rate, estimated_gdp and flag_url to
\* the incoming values, NULL included, sets last_refreshed_at and updated_at
\* to the current timestamp, and leaves name and created_at, and every other
\* row, as they were.
C20_ConflictOverwrites ==
  [][ConflictingUpsertStep]_vars

\* C20 witness: a row created by an earlier request with a capital, a rate
\* and an estimate has been overwritten by a record without them: the
\* columns are NULL, its timestamps are bumped and created_at is the old one.
C20_Witness ==
  /\ Returned
  /\ res.status = 200
  /\ \E old \in startRows : \E new \in countriesRows :
       /\ new.name = old.name
       /\ old.capital # NULL /\ new.capital = NULL
       /\ old.exchange_rate # NULL /\ new.exchange_rate = NULL
       /\ old.flag_url # NULL /\ new.flag_url = NULL
       /\ new.created_at = old.created_at
       /\ new.created_at < new.updated_at
       /\ new.last_refreshed_at = clock

\* the fetched directory holds a record with this name, in any casing
OccursInDirectory(name) ==
  \E k \in DOMAIN countries :
    /\ countries[k].name.t = "string"
    /\ Lower(countries[k].name.s) = Lower(name)

\* C21: from its start to its answer a refresh removes no name from the
\* table, neither from the committed rows nor from the rows its transaction
\* sees; a row whose name is not in the fetched directory stays as it was;
\* and the committed rows differ from those at the start only once the
\* transaction is committed.
C21_RefreshNeverDeletes ==
  (pc # "idle" \/ Returned)
    => /\ Names(startRows) \subseteq Names(countriesRows)
       /\ txState \in {"open", "committed"}
            => Names(startRows) \subseteq Names(txRows)
       /\ \A r \in startRows :
            ~OccursInDirectory(r.name)
              => /\ r \in countriesRows
                 /\ txState \in {"open", "committed"} => r \in txRows
       /\ countriesRows # startRows => txState = "committed"

\* C21 witness: a refresh whose directory does not name an existing row was
\* answered 200: that row is still there, unchanged, next to a row the
\* refresh created.
C21_Witness ==
  /\ Returned
  /\ res.status = 200
  /\ \E r \in startRows : ~OccursInDirectory(r.name) /\ r \in countriesRows
  /\ \E q \in countriesRows : q \notin startRows /\ q.created_at = clock

\* the body reports the run at position k
ReportsRun(body, k) ==
  /\ body.total_countries = refresh_metadata[k].total_countries
  /\ body.last_refreshed_at = Some(refresh_metadata[k].last_refresh_timestamp)
  /\ body.duration_seconds = refresh_metadata[k].refresh_duration_seconds
  /\ body.refresh_status = refresh_metadata[k].status

\* C22: the answer to GET /status carries the count, timestamp, duration
\* and status of the run created last, whatever runs came before it, and
\* last_refreshed_at null with status never_refreshed when no run exists.
C22_StatusReportsLatestRun ==
  res.op = "status"
    => /\ res.status = 200
       /\ IF refresh_metadata = <<>>
            THEN /\ res.body.last_refreshed_at = NULL
                 /\ res.body.refresh_status = "never_refreshed"
                 /\ res.body.total_countries = 0
            ELSE \E k \in DOMAIN refresh_metadata :
                   /\ \A j \in DOMAIN refresh_metadata :
                        j # k => refresh_metadata[j].created_at
                                   < refresh_metadata[k].created_at
                   /\ ReportsRun(res.body, k)

\* C22 witness: GET /status was answered after a completed run followed by
\* a failed one, and reports the failed one.
C22_Witness ==
  /\ res.op = "status"
  /\ Len(refresh_metadata) = 2
  /\ refresh_metadata[1].status = StatusCompleted
  /\ refresh_metadata[1].total_countries > 0
  /\ refresh_metadata[2].status = StatusRatesFailed
  /\ res.body.refresh_status = StatusRatesFailed
  /\ res.body.total_countries = 0

\* the witness of the other case: GET /status was answered before any run
C22_NeverRefreshed ==
  /\ res.op = "status"
  /\ refresh_metadata = <<>>
  /\ res.body.refresh_status = "never_refreshed"

\* the committed rows whose name equals `name`, case-insensitively
Matching(name) == {r \in countriesRows : Lower(r.name) = Lower(name)}

\* a DELETE request: with a matching row it removes that row alone and
\* answers 200 with its name, without one it answers 404 and changes nothing
DeleteStep ==
  deleteCountry
    => /\ refresh_metadata' = refresh_metadata
       /\ artifact' = artifact
       /\ IF Matching(res'.request) = {}
            THEN /\ res'.status = 404
                 /\ countriesRows' = countriesRows
            ELSE /\ Cardinality(Matching(res'.request)) = 1
                 /\ res'.status = 200
                 /\ \E r \in Matching(res'.request) : res'.data = Some(r.name)
                 /\ countriesRows' = countriesRows \ Matching(res'.request)

\* a GET by name: 200 with the matching row, 404 without one, and 404 when
\* it follows a successful DELETE of the same name in any casing
GetStep ==
  getCountryByName
    => /\ countriesRows' = countriesRows
       /\ IF Matching(res'.request) = {}
            THEN res'.status = 404
            ELSE res'.status = 200 /\ res'.data[1] \in Matching(res'.request)
       /\ (res.op = "delete" /\ res.status = 200
             /\ Lower(res.request) = Lower(res'.request))
            => res'.status = 404

\* after a successful DELETE no row has the name, in any casing; it is a
\* refresh that brings one back
DeletedNameAbsent ==
  (res.op = "delete" /\ res.status = 200) => Matching(res.request) = {}

\* C23: DELETE by name removes exactly the row with that name, compared
\* case-insensitively, and answers with it; every other row, and the store
\* when no row matches (404), is left unchanged; a GET of the name in any
\* casing then answers 404.
C23_DeleteByName ==
  /\ []DeletedNameAbsent
  /\ [][DeleteStep /\ GetStep]_vars

\* C23 witness: of the rows the last refresh committed, the one stored as
\* "a" has been deleted and the other left in place, and a GET of "a" has
\* answered 404.
C23_Witness ==
  /\ res.op = "get"
  /\ res.request = <<"a">>
  /\ res.status = 404
  /\ txState = "committed"
  /\ countriesRows # {}
  /\ \E r \in txRows : r.name = <<"a">> /\ countriesRows = txRows \ {r}

\* both overlapping requests have sent their 200
BothSucceeded == \A p \in Requests : racePc[p] = "done"

\* the name keys both requests wrote
WrittenByBoth ==
  {ConflictKey(w.name) : w \in raceWrites[1]}
    \cap {ConflictKey(w.name) : w \in raceWrites[2]}

\* C24: when two overlapping refreshes have both succeeded, each has run a
\* transaction of its own, no two committed rows have the same name up to
\* case, each name either wrote is there, a row both wrote is the version
\* written by the request that wrote it last, and exactly two runs are
\* recorded, both completed.
C24_OverlappingRefreshes ==
  BothSucceeded
    => /\ raceNow[1] # raceNow[2]
       /\ \A r, q \in raceRows :
            ConflictKey(r.name) = ConflictKey(q.name) => r = q
       /\ \A e \in raceLastWriter :
            \E r \in raceRows :
              /\ ConflictKey(r.name) = e[1]
              /\ r \in raceWrites[e[2]]
       /\ Len(raceRuns) = 2
       /\ \A k \in DOMAIN raceRuns : raceRuns[k].status = StatusCompleted

\* C24 witness: both requests succeeded, both wrote the same name, and the
\* one whose transaction began first wrote it last: the committed row is
\* its version.
C24_Witness ==
  /\ BothSucceeded
  /\ WrittenByBoth # {}
  /\ \E e \in raceLastWriter :
       /\ e[1] \in WrittenByBoth
       /\ raceNow[e[2]] < raceNow[Other(e[2])]
       /\ \E r \in raceRows : r \in raceWrites[e[2]] /\ r.updated_at < r.created_at

\* the order of the positions of a refresh request
Rank(p) ==
  CASE p = "v3" -> 1
    [] p = "v2" -> 2
    [] p \in {"dir_failed", "rates"} -> 3
    [] p \in {"rates_failed", "connect"} -> 4
    [] p = "loop" -> 5
    [] p = "image" -> 6
    [] p = "log" -> 7
    [] p = "commit" -> 8
    [] p = "top5" -> 9
    [] p = "catch" -> 10
    [] OTHER -> 11

\* a step of a request either makes one more attempt of the fetch in
\* progress or one more iteration of the persist loop, or moves on to a
\* later position: no fetch is started twice
RequestAdvances ==
  pc # "idle"
    => \/ Rank(pc') > Rank(pc)
       \/ pc' = pc /\ InFetch /\ attempt' = attempt + 1
       \/ pc' = pc /\ pc = "loop" /\ idx' = idx + 1

\* a request sends nothing before it returns and one answer when it does:
\* success, validation failure, service unavailable or internal failure
OneOutcome ==
  pc # "idle"
    => IF pc' = "idle"
         THEN /\ res = NoResponse
              /\ res'.op = "refresh"
              /\ res'.status \in {200, 400, 503, 500}
         ELSE res' = NoResponse

\* C25: a refresh request whose every HTTP attempt and store operation
\* returns or fails comes to an end; it answers exactly once, with one of
\* the four outcomes; and it makes at most 3 attempts on the primary
\* directory endpoint, 3 on the legacy one and 8 on the rate endpoint, each
\* of the three fetches being started at most once.
C25_RefreshTerminates ==
  /\ (pc # "idle") ~> (pc = "idle")
  /\ [][RequestAdvances /\ OneOutcome]_vars
  /\ [](InFetch => attempt + 1 <= RetriesAt(pc))

\* C25 witness: a request has come to its end with the internal-failure
\* outcome, after a COMMIT that failed.
C25_Witness ==
  /\ Returned
  /\ res = InternalFailure
  /\ thrown = "commit"
  /\ clientState = "released"

\* the wait the specification gives for the k-th failed attempt, k from 1
BackoffAfter(k) == IF k <= 2 THEN k * 2000 ELSE k * 5000

EmptyDirectoryFetched ==
  /\ pc # "idle" \/ Returned
  /\ directoryState = "ok"
  /\ countries = <<>>

\* C27 (as claimed): a request whose directory is empty does not go on to
\* the transaction, and records no run with status completed.
C27_EmptyDirectoryNotPersisted ==
  EmptyDirectoryFetched
    => /\ pc \notin {"loop", "image", "log", "commit", "top5"}
       /\ txState = "none"
       /\ \A k \in DOMAIN NewRuns : NewRuns[k].status # StatusCompleted

\* this request was answered 200 and its generateSummaryImage wrote the file
ArtifactWrittenBySuccessfulRun ==
  /\ Returned
  /\ res.status = 200
  /\ imageError = "none"
  /\ Len(NewRuns) = 1

\* C28 (as claimed): the artifact a successful run wrote shows the count
\* and the timestamp of the run this request recorded, and the top five by
\* estimate of the rows as they are with this request's batch committed.
C28_ArtifactShowsOwnRun ==
  ArtifactWrittenBySuccessfulRun
    => /\ artifact # NULL
       /\ artifact[1].total = NewRuns[1].total_countries
       /\ artifact[1].last = NewRuns[1].last_refresh_timestamp
       /\ artifact[1].top5 = getTop5CountriesByGDP(countriesRows)

\* the positions at which the request holds a pooled client
HoldsClient == pc \in {"loop", "image", "log", "commit", "top5", "catch"}

\* C29: a request that took a pooled client holds it, unreleased, exactly
\* while it is between BEGIN and its return; when it has returned, on
\* whichever path, the transaction is ended by COMMIT or ROLLBACK and the
\* client was released exactly once.
C29_ClientReleasedOnce ==
  /\ HoldsClient => (clientState = "held" /\ releases = 0 /\ txState \in {"open", "committed"})
  /\ (pc # "idle" /\ ~HoldsClient) => (clientState = "none" /\ txState = "none")
  /\ (Returned /\ clientState # "none")
       => /\ clientState = "released"
          /\ releases = 1
          /\ txState \in {"committed", "rolledback"}
          /\ res.status \in {200, 400, 500}
  /\ (Returned /\ clientState = "none") => (res.status = 503 /\ releases = 0)

\* C29 witness: the top-5 read after the COMMIT failed; the request has
\* returned with the transaction committed and the client released once.
C29_Witness ==
  /\ Returned
  /\ thrown = "top5"
  /\ txState = "committed"
  /\ clientState = "released"
  /\ releases = 1

\* C30 (as claimed): when a refresh is answered with the internal failure,
\* the rows of countries are what they were when the request arrived and
\* the request recorded no run with status completed.
C30_InternalFailureLeavesNoTrace ==
  (Returned /\ res = InternalFailure)
    => /\ countriesRows = startRows
       /\ \A k \in DOMAIN NewRuns : NewRuns[k].status # StatusCompleted

====
